---- MODULE Spec2Model ----
(***************************************************************************)
(* Target-size-seeking compression controllers of the File-compressor      *)
(* backend: the image quality search with its dimension ladder             *)
(* (utils/image_compressor.py), the PDF tier bisection                     *)
(* (utils/pdf_compressor.py) and the video bitrate converger               *)
(* (utils/video_compressor.py).                                            *)
(*                                                                         *)
(* The encoders (Pillow, Ghostscript, ffmpeg) are external.  Each probe    *)
(* draws its result from a finite set of sizes; a parameter vector that is *)
(* probed again yields the result observed before (deterministic encoder). *)
(* Image and PDF sizes are bytes, video sizes are KB.                        *)
(***************************************************************************)
EXTENDS Integers, Sequences, FiniteSets, TLC

\* ---------------------------------------------------------------- bounds
MaxDirectQ == 4      \* direct binary_search_quality calls use bounds within 1..MaxDirectQ
WideBits == 23       \* SpecWide: quality range 1..2^WideBits

\* ------------------------------------------------------- program constants
DefaultMinQuality == 1       \* compress_image: min_quality=1
DefaultMaxQuality == 95      \* compress_image: max_quality=95
max_iterations == 20         \* binary_search_quality: safety limit
RefineSpan == 5              \* range(best_quality + 1, min(best_quality + 5, ...))
tolerance_pct == 1           \* binary_search_quality: tolerance_pct = 1.0
FloorScale == 1              \* compress_image: floor scale 0.1, in tenths
scale_factors == <<9, 8, 7, 6, 5, 4, 3, 2>>   \* compress_image: in tenths

EncodeError == -1            \* a probe that raises instead of returning a size
None == 0                    \* width/height None, best_quality None

Min(a, b) == IF a <= b THEN a ELSE b
Max(a, b) == IF a >= b THEN a ELSE b

\* ------------------------------------------------------------------ state
VARIABLES
    kind,            \* "image" (compress_image), "pdf" (find_optimal_compression),
                     \* "video" (compress_video_to_target), "bsq" (direct
                     \* binary_search_quality call)
    pc,              \* position of the request
    max_size_kb,     \* target of the request in KB
    target_size,     \* target in the unit of the sizes (image, PDF: bytes; video: KB)
    original_size,   \* size of the uploaded file, same unit
    original_width, original_height,
    \* binary_search_quality locals
    min_quality, max_quality, width, height,
    low, high, iterations, bs_size, bs_quality, ref_q, ref_end,
    \* compress_image locals
    scale_idx, best_size, best_quality, has_buffer, resized,
    final_width, final_height,
    outcome,
    \* find_optimal_compression locals; factors are scaled by FactorScale
    lowest_size_mb, pdf_low, pdf_high, iteration, best_size_mb, pdf_best_quality,
    best_output,
    quality_factor,  \* argument of a direct get_settings_for_quality_factor call
    settings,        \* its result
    temp_dir,        \* self.temp_dir of the PDF compressor: None or TempDir
    \* compress_video_to_target locals
    duration, video_bitrate, new_width, new_height, final_size, attempt,
    \* compress_file and download_file serving concurrent requests
    app,             \* request id -> its file type, file name, position, buffer
    disk,            \* path in the upload and compressed folders -> content
    files,           \* intermediate files of the request that exist on disk
    \* encoder
    knee,            \* 0: any encoder; q > 0: step encoder, over target from quality q on
    encMemo,         \* parameter vector -> result, for results a later probe can repeat
    \* observation of the run
    probed,          \* parameter vectors handed to the encoder so far
    repeats,         \* number of probes whose vector had been probed before
    forgotten,       \* a repeated vector whose earlier result is not retained
    nBoundary, nMid, nRefine,  \* boundary, loop and refinement probes of the current search
    nProbes,         \* probes of the request
    fitMax,          \* largest fitting size probed in the current call (0: none)
    fitHigh,         \* highest quality probed fitting at the current dimensions (0: none)
    overLow,         \* lowest quality probed over target at the current dimensions
    mono             \* the results so far are non-decreasing in quality

vars == << kind, pc, max_size_kb, target_size, original_size, original_width,
           original_height, min_quality, max_quality, width, height, low, high,
           iterations, bs_size, bs_quality, ref_q, ref_end, scale_idx,
           best_size, best_quality, has_buffer, resized, final_width,
           final_height, outcome, lowest_size_mb, pdf_low, pdf_high, iteration, best_size_mb,
           pdf_best_quality, best_output, quality_factor, settings, temp_dir, duration, video_bitrate, new_width,
           new_height, final_size, attempt, app, disk, files, knee, encMemo, probed, repeats, forgotten,
           nBoundary, nMid, nRefine, nProbes, fitMax, fitHigh, overLow, mono >>

inputVars == << kind, max_size_kb, target_size, original_size, original_width,
              original_height, knee,
               quality_factor >>
appVars == << app, disk >>
reqVars == << inputVars, settings, appVars >>
bsqArgs == << min_quality, max_quality, width, height >>
bsqLocals == << low, high, iterations, bs_size, bs_quality, ref_q, ref_end >>
imgLocals == << scale_idx, best_size, best_quality, has_buffer, resized,
                final_width, final_height >>
pdfLocals == << lowest_size_mb, pdf_low, pdf_high, iteration, best_size_mb, pdf_best_quality,
                best_output,
               temp_dir >>
vidLocals == << duration, video_bitrate, new_width, new_height, final_size,
                attempt >>
counters == << nBoundary, nMid, nRefine >>

\* ---------------------------------------------------------------- encoder
\* Sizes an image encoder can produce for a target of t bytes: two sizes well
\* under the target, one within the 1% tolerance, the target itself, one over.
ImageSizes(t) == { t \div 4, t \div 2, t - (t \div 200), t, 2 * t }

\* get_file_size / compress_with_settings: the results a probe of (q, w, h)
\* can return.  A vector probed before returns what it returned before.
EncodeResults(q, w, h) ==
    IF <<q, w, h>> \in DOMAIN encMemo THEN { encMemo[<<q, w, h>>] }
    ELSE IF bs_quality # None /\ <<q, w, h>> = <<bs_quality, width, height>>
         THEN { bs_size }
    ELSE IF knee # 0
         THEN { IF q >= knee THEN 2 * target_size ELSE target_size \div 2 }
    ELSE ImageSizes(target_size) \cup { EncodeError }

\* Bookkeeping of one probe of (q, w, h) with result s; fm, fh and ol are the
\* values of fitMax, fitHigh and overLow before the probe.  The results stay
\* non-decreasing in quality when a fitting result lies below every quality
\* probed over target and is not smaller than the fitting results below it,
\* and a result over target lies above every fitting quality.
Observe(q, w, h, s, fm, fh, ol) ==
    LET v == <<q, w, h>>
        fits == s # EncodeError /\ s <= target_size
        known == v \in DOMAIN encMemo
                 \/ (bs_quality # None /\ v = <<bs_quality, width, height>>)
    IN  /\ probed' = probed \cup {v}
        /\ repeats' = repeats + (IF v \in probed THEN 1 ELSE 0)
        /\ forgotten' = (forgotten \/ (v \in probed /\ ~known))
        /\ nProbes' = nProbes + 1
        /\ encMemo' = IF fits \/ known THEN encMemo ELSE (v :> s) @@ encMemo
        /\ fitMax' = IF fits THEN Max(fm, s) ELSE fm
        /\ fitHigh' = IF fits THEN Max(fh, q) ELSE fh
        /\ overLow' = IF fits \/ s = EncodeError THEN ol ELSE Min(ol, q)
        /\ mono' = /\ mono
                   /\ fits => (q < ol /\ (q >= fh => s >= fm))
                   /\ (s # EncodeError /\ ~fits) => q > fh

NoProbe == UNCHANGED << encMemo, probed, repeats, forgotten, nProbes, fitMax,
                        fitHigh, overLow, mono >>

\* -------------------------------------------------- binary_search_quality
WithinToleranceInverted(size) == 100 * (target_size - size) >= target_size * tolerance_pct
WithinToleranceNoPercent(size) == (target_size - size) <= target_size * tolerance_pct
\* lines 96, 116, 133: target_size - size <= target_size * tolerance_pct / 100
WithinTolerance(size) == 100 * (target_size - size) <= target_size * tolerance_pct

MaxAcceptsStrict(size) == size < target_size
\* line 100: if size <= target_size (max quality already under target)
MaxAccepts(size) == size <= target_size

\* line 105: if size > target_size (even minimum quality exceeds target)
MinInfeasible(size) == size > target_size

\* line 126: if size <= target_size (midpoint is valid)
MidFits(size) == size <= target_size

RefineTakesAnySize(size, best) == size > best
\* line 146: if size <= target_size and size > best_size
RefineTakes(size, best) == size <= target_size /\ size > best

\* lines 98-101: probe max_quality; accept it when it fits
BsqProbeMax ==
    /\ pc = "bsq_max"
    /\ \E s \in EncodeResults(max_quality, width, height) :
        /\ Observe(max_quality, width, height, s, fitMax, fitHigh, overLow)
        /\ nBoundary' = nBoundary + 1
        /\ IF s = EncodeError
           THEN /\ pc' = "raised"
                /\ UNCHANGED bsqLocals
           ELSE IF MaxAccepts(s)
           THEN /\ pc' = "bsq_ret"
                /\ bs_size' = s
                /\ bs_quality' = max_quality
                /\ UNCHANGED << low, high, iterations, ref_q, ref_end >>
           ELSE /\ pc' = "bsq_min"
                /\ UNCHANGED bsqLocals
    /\ UNCHANGED << reqVars, bsqArgs, imgLocals, pdfLocals, vidLocals, files, outcome,
                    nMid, nRefine >>

\* lines 103-117: probe min_quality; Infeasible when it is over target,
\* immediate return when it is within the tolerance
BsqProbeMin ==
    /\ pc = "bsq_min"
    /\ \E s \in EncodeResults(min_quality, width, height) :
        /\ Observe(min_quality, width, height, s, fitMax, fitHigh, overLow)
        /\ nBoundary' = nBoundary + 1
        /\ IF s = EncodeError
           THEN /\ pc' = "raised"
                /\ UNCHANGED bsqLocals
           ELSE IF MinInfeasible(s)
           THEN /\ pc' = "bsq_ret"
                /\ bs_size' = 0
                /\ bs_quality' = None
                /\ UNCHANGED << low, high, iterations, ref_q, ref_end >>
           ELSE /\ bs_size' = s
                /\ bs_quality' = min_quality
                /\ iterations' = 0
                /\ pc' = IF WithinTolerance(s) THEN "bsq_ret" ELSE "bsq_loop"
                /\ UNCHANGED << low, high, ref_q, ref_end >>
    /\ UNCHANGED << reqVars, bsqArgs, imgLocals, pdfLocals, vidLocals, files, outcome,
                    nMid, nRefine >>

\* lines 141-144: the refinement range, fixed when the loop is left
RefineFrom(q) == q + 1
RefineEnd(q) == Min(q + RefineSpan, max_quality + 1)   \* exclusive

LoopGuardOneMore(lo, hi, it) == lo <= hi /\ it <= max_iterations
\* line 120: while low <= high and iterations < max_iterations
LoopGuard(lo, hi, it) == lo <= hi /\ it < max_iterations

\* lines 120-139: one iteration of the main loop, or leaving it
BsqLoop ==
    /\ pc = "bsq_loop"
    /\ IF LoopGuard(low, high, iterations)
       THEN LET mid == (low + high) \div 2 IN
            \E s \in EncodeResults(mid, width, height) :
              /\ Observe(mid, width, height, s, fitMax, fitHigh, overLow)
              /\ nMid' = nMid + 1
              /\ iterations' = iterations + 1
              /\ IF s = EncodeError
                 THEN /\ pc' = "raised"
                      /\ UNCHANGED << low, high, bs_size, bs_quality, ref_q, ref_end >>
                 ELSE IF MidFits(s)
                 THEN /\ bs_size' = s
                      /\ bs_quality' = mid
                      /\ IF WithinTolerance(s)
                         THEN /\ pc' = "bsq_refine"
                              /\ ref_q' = RefineFrom(mid)
                              /\ ref_end' = RefineEnd(mid)
                              /\ UNCHANGED << low, high >>
                         ELSE /\ low' = mid + 1
                              /\ pc' = "bsq_loop"
                              /\ UNCHANGED << high, ref_q, ref_end >>
                 ELSE /\ high' = mid - 1
                      /\ pc' = "bsq_loop"
                      /\ UNCHANGED << low, bs_size, bs_quality, ref_q, ref_end >>
       ELSE /\ pc' = "bsq_refine"
            /\ ref_q' = RefineFrom(bs_quality)
            /\ ref_end' = RefineEnd(bs_quality)
            /\ NoProbe
            /\ UNCHANGED << low, high, iterations, bs_size, bs_quality, nMid >>
    /\ UNCHANGED << reqVars, bsqArgs, imgLocals, pdfLocals, vidLocals, files, outcome,
                    nBoundary, nRefine >>

\* lines 141-151: probe the quality levels right above the best one
BsqRefine ==
    /\ pc = "bsq_refine"
    /\ IF ref_q < ref_end
       THEN \E s \in EncodeResults(ref_q, width, height) :
              /\ Observe(ref_q, width, height, s, fitMax, fitHigh, overLow)
              /\ nRefine' = nRefine + 1
              /\ IF s = EncodeError
                 THEN /\ pc' = "raised"
                      /\ UNCHANGED << bs_size, bs_quality, ref_q >>
                 ELSE /\ pc' = "bsq_refine"
                      /\ ref_q' = ref_q + 1
                      /\ IF RefineTakes(s, bs_size)
                         THEN /\ bs_size' = s
                              /\ bs_quality' = ref_q
                         ELSE UNCHANGED << bs_size, bs_quality >>
       ELSE /\ pc' = "bsq_ret"
            /\ NoProbe
            /\ UNCHANGED << bs_size, bs_quality, ref_q, nRefine >>
    /\ UNCHANGED << reqVars, bsqArgs, imgLocals, pdfLocals, vidLocals, files, outcome,
                    low, high, iterations, ref_end, nBoundary, nMid >>

\* a direct caller receives (buffer, size, quality) or (None, None, None)
BsqReturnDirect ==
    /\ pc = "bsq_ret"
    /\ kind = "bsq"
    /\ pc' = "done"
    /\ outcome' = [ source |-> FALSE, size |-> bs_size, quality |-> bs_quality,
                    width |-> width, height |-> height, resized |-> FALSE,
                    success |-> IF bs_quality # None THEN "true" ELSE "false",
                    reduction_percent |-> 0 ]
    /\ NoProbe
    /\ UNCHANGED << reqVars, bsqArgs, bsqLocals, imgLocals, pdfLocals, vidLocals, files,
                    counters >>

\* ----------------------------------------------------------- compress_image
\* Targets of image and PDF requests, in KB
TargetsKB == { 20 }

\* Uploaded images: pixel dimensions and file sizes the requests range over.
\* For sides below 90 pixels int(side * scale) equals the exact floor.
ImageDims == { <<1, 1>>, <<40, 30>> }
OriginalSizes(t) == { t \div 2, t, 4 * t }

calculate_new_dimensions_unclamped(ow, oh, tenths) ==
    << (ow * tenths) \div 10, (oh * tenths) \div 10 >>
\* calculate_new_dimensions, scale in tenths: max(1, int(side * scale_factor))
calculate_new_dimensions(ow, oh, tenths) ==
    << Max(1, (ow * tenths) \div 10), Max(1, (oh * tenths) \div 10) >>

\* round((1 - best_size / original_size) * 100, 2), in hundredths of a percent
ReductionPercent(size, orig) == ((orig - size) * 20000 + orig) \div (2 * orig)

\* lines 224-225: the ladder computes new_width, new_height for its next
\* scale factor (the for loop alone, with no encode)
NewDimensions ==
    /\ pc = "dims"
    /\ scale_idx < Len(scale_factors)
    /\ scale_idx' = scale_idx + 1
    /\ LET nd == calculate_new_dimensions(original_width, original_height,
                                          scale_factors[scale_idx + 1])
       IN /\ new_width' = nd[1]
          /\ new_height' = nd[2]
    /\ pc' = IF scale_idx + 1 = Len(scale_factors) THEN "done" ELSE "dims"
    /\ NoProbe
    /\ UNCHANGED << reqVars, bsqArgs, bsqLocals, best_size, best_quality, has_buffer,
                    resized, final_width, final_height, pdfLocals, duration,
                    video_bitrate, final_size, attempt, files, counters, outcome >>

\* entry of binary_search_quality (lines 89-96) with the given arguments
BsqCall(minq, maxq, w, h) ==
    /\ min_quality' = minq
    /\ max_quality' = maxq
    /\ width' = w
    /\ height' = h
    /\ low' = minq
    /\ high' = maxq
    /\ iterations' = 0
    /\ bs_size' = 0
    /\ bs_quality' = None
    /\ ref_q' = 0
    /\ ref_end' = 0
    /\ pc' = "bsq_max"

\* lines 172-212: size check, then the search at the original dimensions
CompressImageStart ==
    /\ pc = "start"
    /\ kind = "image"
    /\ IF original_size <= target_size
       THEN /\ pc' = "done"
            /\ outcome' = [ source |-> TRUE, size |-> original_size,
                            quality |-> 100, width |-> original_width,
                            height |-> original_height, resized |-> FALSE,
                            success |-> "absent", reduction_percent |-> 0 ]
            /\ UNCHANGED << bsqArgs, bsqLocals >>
       ELSE /\ BsqCall(DefaultMinQuality, DefaultMaxQuality, None, None)
            /\ UNCHANGED outcome
    /\ NoProbe
    /\ UNCHANGED << reqVars, imgLocals, pdfLocals, vidLocals, files, counters >>

NeedsLadderInverted(quality) == quality # None
\* line 219: if best_buffer is None (quality reduction alone was not enough)
NeedsLadder(quality) == quality = None

\* lines 206-219: result of the search at the original dimensions
CompressImageAfterFirst ==
    /\ pc = "bsq_ret"
    /\ kind = "image"
    /\ scale_idx = 0
    /\ best_size' = bs_size
    /\ best_quality' = bs_quality
    /\ has_buffer' = (bs_quality # None)
    /\ resized' = FALSE
    /\ final_width' = original_width
    /\ final_height' = original_height
    /\ IF NeedsLadder(bs_quality)
       THEN /\ pc' = "ladder"
            /\ scale_idx' = 1
       ELSE /\ pc' = "finish"
            /\ UNCHANGED scale_idx
    /\ NoProbe
    /\ UNCHANGED << reqVars, bsqArgs, bsqLocals, pdfLocals, vidLocals, files, outcome,
                    counters >>

LadderAcceptsStrict(size) == size < target_size
\* line 236: if size <= target_size (high quality at this dimension works)
LadderAccepts(size) == size <= target_size

\* lines 224-254: next scale factor; probe quality 95 at the new dimensions,
\* take it when it fits, otherwise start the quality search there
LadderStep ==
    /\ pc = "ladder"
    /\ LET nd == calculate_new_dimensions(original_width, original_height,
                                          scale_factors[scale_idx])
       IN \E s \in EncodeResults(DefaultMaxQuality, nd[1], nd[2]) :
            /\ Observe(DefaultMaxQuality, nd[1], nd[2], s, 0, 0,
                       DefaultMaxQuality + 1)
            /\ nBoundary' = 0
            /\ nMid' = 0
            /\ nRefine' = 0
            /\ IF s = EncodeError
               THEN /\ pc' = "raised"
                    /\ UNCHANGED << bsqArgs, bsqLocals, best_size, best_quality,
                                    has_buffer, resized, final_width, final_height >>
               ELSE IF LadderAccepts(s)
               THEN /\ best_size' = s
                    /\ best_quality' = DefaultMaxQuality
                    /\ has_buffer' = TRUE
                    /\ resized' = TRUE
                    /\ final_width' = nd[1]
                    /\ final_height' = nd[2]
                    /\ pc' = "floor"
                    /\ UNCHANGED << bsqArgs, bsqLocals >>
               ELSE /\ BsqCall(DefaultMinQuality, DefaultMaxQuality, nd[1], nd[2])
                    /\ UNCHANGED << best_size, best_quality, has_buffer, resized,
                                    final_width, final_height >>
    /\ UNCHANGED << reqVars, pdfLocals, vidLocals, files, scale_idx, outcome >>

\* lines 256-262: result of the search at the current ladder step
LadderAfterSearch ==
    /\ pc = "bsq_ret"
    /\ kind = "image"
    /\ scale_idx >= 1
    /\ IF bs_quality # None
       THEN /\ best_size' = bs_size
            /\ best_quality' = bs_quality
            /\ has_buffer' = TRUE
            /\ resized' = TRUE
            /\ final_width' = width
            /\ final_height' = height
            /\ pc' = "floor"
            /\ UNCHANGED scale_idx
       ELSE /\ IF scale_idx < Len(scale_factors)
               THEN /\ scale_idx' = scale_idx + 1
                    /\ pc' = "ladder"
               ELSE /\ pc' = "floor"
                    /\ UNCHANGED scale_idx
            /\ UNCHANGED << best_size, best_quality, has_buffer, resized,
                            final_width, final_height >>
    /\ NoProbe
    /\ UNCHANGED << reqVars, bsqArgs, bsqLocals, pdfLocals, vidLocals, files, outcome,
                    counters >>

NeedsFloorInverted(hasBuffer) == hasBuffer
\* line 265: if best_buffer is None (no ladder step produced a result)
NeedsFloor(hasBuffer) == ~hasBuffer

\* lines 264-280, after the ladder loop: when no step fitted, the smallest
\* dimensions with the lowest quality, kept whatever its size
Floor ==
    /\ pc = "floor"
    /\ IF NeedsFloor(has_buffer)
       THEN LET nd == calculate_new_dimensions(original_width, original_height,
                                               FloorScale)
            IN \E s \in EncodeResults(DefaultMinQuality, nd[1], nd[2]) :
                 /\ Observe(DefaultMinQuality, nd[1], nd[2], s, 0, 0,
                            DefaultMaxQuality + 1)
                 /\ IF s = EncodeError
                    THEN /\ pc' = "raised"
                         /\ UNCHANGED imgLocals
                    ELSE /\ best_size' = s
                         /\ best_quality' = DefaultMinQuality
                         /\ has_buffer' = TRUE
                         /\ resized' = TRUE
                         /\ final_width' = nd[1]
                         /\ final_height' = nd[2]
                         /\ pc' = "finish"
                         /\ UNCHANGED scale_idx
       ELSE /\ pc' = "finish"
            /\ NoProbe
            /\ UNCHANGED imgLocals
    /\ UNCHANGED << reqVars, bsqArgs, bsqLocals, pdfLocals, vidLocals, files, outcome,
                    counters >>

\* lines 282-305: the ValueError for a missing buffer, else the result
Finish ==
    /\ pc = "finish"
    /\ IF ~has_buffer
       THEN /\ pc' = "error"
            /\ UNCHANGED outcome
       ELSE /\ pc' = "done"
            /\ outcome' = [ source |-> FALSE, size |-> best_size,
                            quality |-> best_quality, width |-> final_width,
                            height |-> final_height, resized |-> resized,
                            success |-> IF best_size <= target_size
                                        THEN "true" ELSE "false",
                            reduction_percent |->
                                ReductionPercent(best_size, original_size) ]
    /\ NoProbe
    /\ UNCHANGED << reqVars, bsqArgs, bsqLocals, imgLocals, pdfLocals, vidLocals, files,
                    counters >>

\* ------------------------------------------------ find_optimal_compression
FactorScale == 1280          \* quality factors are held as multiples of 1/1280
pdf_max_iterations == 8      \* find_optimal_compression: max_iterations
WidthThreshold == 5          \* (high - low) > 0.05, in hundredths

\* CUSTOM_QUALITY_LEVELS, quality_factor in tenths
CUSTOM_QUALITY_LEVELS == <<
    [quality_factor |-> 0,  gs_preset |-> "/screen",   dpi |-> 36],
    [quality_factor |-> 1,  gs_preset |-> "/screen",   dpi |-> 50],
    [quality_factor |-> 2,  gs_preset |-> "/screen",   dpi |-> 72],
    [quality_factor |-> 3,  gs_preset |-> "/ebook",    dpi |-> 100],
    [quality_factor |-> 4,  gs_preset |-> "/ebook",    dpi |-> 150],
    [quality_factor |-> 5,  gs_preset |-> "/ebook",    dpi |-> 200],
    [quality_factor |-> 6,  gs_preset |-> "/printer",  dpi |-> 225],
    [quality_factor |-> 7,  gs_preset |-> "/printer",  dpi |-> 250],
    [quality_factor |-> 8,  gs_preset |-> "/printer",  dpi |-> 300],
    [quality_factor |-> 9,  gs_preset |-> "/prepress", dpi |-> 300],
    [quality_factor |-> 10, gs_preset |-> "/prepress", dpi |-> 400] >>

\* get_settings_for_quality_factor: index of the first level whose
\* quality_factor is >= f (f scaled by FactorScale), the last level otherwise
TierIndexStrict(f) ==
    LET hits == { i \in 1..Len(CUSTOM_QUALITY_LEVELS) :
                    f * 10 < CUSTOM_QUALITY_LEVELS[i].quality_factor * FactorScale }
    IN IF hits = {} THEN Len(CUSTOM_QUALITY_LEVELS)
       ELSE CHOOSE i \in hits : \A j \in hits : i <= j
\* lines 130-134: if quality_factor <= level["quality_factor"]: return level
TierIndex(f) ==
    LET hits == { i \in 1..Len(CUSTOM_QUALITY_LEVELS) :
                    f * 10 <= CUSTOM_QUALITY_LEVELS[i].quality_factor * FactorScale }
    IN IF hits = {} THEN Len(CUSTOM_QUALITY_LEVELS)
       ELSE CHOOSE i \in hits : \A j \in hits : i <= j

get_settings_for_quality_factor(f) == CUSTOM_QUALITY_LEVELS[TierIndex(f)]

\* no settings returned yet
NoSettings == [ quality_factor |-> -1, gs_preset |-> "", dpi |-> 0 ]

\* one call of get_settings_for_quality_factor(quality_factor)
GetSettings ==
    /\ pc = "tier_start"
    /\ settings' = get_settings_for_quality_factor(quality_factor)
    /\ pc' = "done"
    /\ NoProbe
    /\ UNCHANGED << inputVars, appVars, bsqArgs, bsqLocals, imgLocals, pdfLocals,
                    vidLocals, files, counters, outcome >>

\* Sizes Ghostscript can produce for a target of t bytes
PdfSizes(t) == { t \div 4, t \div 2, t, 2 * t }

\* compress_pdf + get_file_size_mb for the tier with index i
PdfEncodeResults(i) ==
    IF <<i, 0, 0>> \in DOMAIN encMemo THEN { encMemo[<<i, 0, 0>>] }
    ELSE PdfSizes(target_size) \cup { EncodeError }

\* Bookkeeping of one probe whose every result is retained (PDF, video)
ObserveAll(v, s, monoOk) ==
    /\ probed' = probed \cup {v}
    /\ repeats' = repeats + (IF v \in probed THEN 1 ELSE 0)
    /\ nProbes' = nProbes + 1
    /\ encMemo' = (v :> s) @@ encMemo
    /\ mono' = (mono /\ monoOk)
    /\ UNCHANGED << forgotten, fitMax, fitHigh, overLow >>

\* size s at tier i is consistent with sizes non-decreasing along the table
TierMonotone(i, s) ==
    \A v \in DOMAIN encMemo :
        (encMemo[v] # EncodeError /\ s # EncodeError) =>
            /\ (v[1] < i => encMemo[v] <= s)
            /\ (v[1] > i => encMemo[v] >= s)

PdfOutcome(src, size, tier) ==
    [ source |-> src, size |-> size, quality |-> tier, width |-> None,
      height |-> None, resized |-> FALSE, success |-> "absent",
      reduction_percent |-> ReductionPercent(size, original_size) ]

TempDir == 1                 \* self.temp_dir = tempfile.mkdtemp()

\* cleanup(): shutil.rmtree(self.temp_dir) when it is set and exists
cleanup(fs) == fs \ { "temp_dir" }

\* find_optimal_compression returns final_path: the best output copied out of
\* the temp directory (lines 162-171, 183-192, 234-243), then the finally
\* clause; compress_to_target_size reads it and unlinks the temporary input
\* and the compressed file (lines 296-319)
PdfReturnFiles(fs) == (cleanup(fs \cup { "final" })) \ { "temp_input", "final" }

\* find_optimal_compression raises: the finally clause, then the except clause
\* of compress_to_target_size unlinks the temporary input (lines 323-334)
PdfRaiseFiles(fs) == (cleanup(fs)) \ { "temp_input" }

\* lines 138-149: a source that already fits is returned as it is; otherwise
\* the temp directory is made.  compress_to_target_size has written the
\* upload to a temporary input file before the call (lines 266-278) and
\* unlinks it after an early return (lines 314-319)
PdfStart ==
    /\ pc = "pdf_start"
    /\ IF original_size <= target_size
       THEN /\ pc' = "done"
            /\ best_output' = "input"
            /\ outcome' = PdfOutcome(TRUE, original_size, 0)
            /\ files' = (files \cup { "temp_input" }) \ { "temp_input" }
            /\ UNCHANGED temp_dir
       ELSE /\ pc' = "pdf_lowest"
            /\ temp_dir' = TempDir
            /\ files' = files \cup { "temp_input", "temp_dir" }
            /\ UNCHANGED << best_output, outcome >>
    /\ NoProbe
    /\ UNCHANGED << reqVars, bsqArgs, bsqLocals, imgLocals, vidLocals, counters,
                    lowest_size_mb, pdf_low, pdf_high, iteration, best_size_mb,
                    pdf_best_quality >>

\* lines 151-171: the lowest tier; returned as it is when it is over target
PdfProbeLowest ==
    /\ pc = "pdf_lowest"
    /\ LET i == TierIndex(0) IN
       \E s \in PdfEncodeResults(i) :
         /\ ObserveAll(<<i, 0, 0>>, s, TierMonotone(i, s))
         /\ IF s = EncodeError
            THEN /\ pc' = "raised"
                 /\ temp_dir' = None
                 /\ files' = PdfRaiseFiles(files)
                 /\ UNCHANGED << lowest_size_mb, best_output, outcome >>
            ELSE /\ lowest_size_mb' = s
                 /\ IF s > target_size
                    THEN /\ pc' = "done"
                         /\ best_output' = "lowest_quality"
                         /\ outcome' = PdfOutcome(FALSE, s, i)
                         /\ temp_dir' = None
                         /\ files' = PdfReturnFiles(files)
                    ELSE /\ pc' = "pdf_highest"
                         /\ UNCHANGED << best_output, outcome, temp_dir, files >>
    /\ UNCHANGED << reqVars, bsqArgs, bsqLocals, imgLocals, vidLocals, counters,
                    pdf_low, pdf_high, iteration, best_size_mb, pdf_best_quality >>

\* lines 173-201: the highest tier; returned when it fits, else the bisection
\* starts from the lowest tier as the best result
PdfProbeHighest ==
    /\ pc = "pdf_highest"
    /\ LET i == TierIndex(FactorScale) IN
       \E s \in PdfEncodeResults(i) :
         /\ ObserveAll(<<i, 0, 0>>, s, TierMonotone(i, s))
         /\ IF s = EncodeError
            THEN /\ pc' = "raised"
                 /\ temp_dir' = None
                 /\ files' = PdfRaiseFiles(files)
                 /\ UNCHANGED << pdf_low, pdf_high, iteration, best_size_mb,
                                 pdf_best_quality, best_output, outcome >>
            ELSE IF s <= target_size
            THEN /\ pc' = "done"
                 /\ best_output' = "highest_quality"
                 /\ outcome' = PdfOutcome(FALSE, s, i)
                 /\ temp_dir' = None
                 /\ files' = PdfReturnFiles(files)
                 /\ UNCHANGED << pdf_low, pdf_high, iteration, best_size_mb,
                                 pdf_best_quality >>
            ELSE /\ pc' = "pdf_loop"
                 /\ pdf_low' = 0
                 /\ pdf_high' = FactorScale
                 /\ best_output' = "lowest_quality"
                 /\ best_size_mb' = lowest_size_mb
                 /\ pdf_best_quality' = 0
                 /\ iteration' = 0
                 /\ UNCHANGED << outcome, temp_dir, files >>
    /\ UNCHANGED << reqVars, bsqArgs, bsqLocals, imgLocals, vidLocals, counters,
                    lowest_size_mb >>

PdfLoopGuardNoWidth(lo, hi, it) == it < pdf_max_iterations
PdfLoopGuardCoarse(lo, hi, it) ==
    /\ 100 * (hi - lo) > 4 * WidthThreshold * FactorScale
    /\ it < pdf_max_iterations
\* line 203: while (high - low) > 0.05 and iteration < max_iterations
PdfLoopGuard(lo, hi, it) ==
    /\ 100 * (hi - lo) > WidthThreshold * FactorScale
    /\ it < pdf_max_iterations

PdfFitsInverted(s) == s >= target_size
\* line 215: if current_size_mb <= target_size_mb
PdfFits(s) == s <= target_size

PdfLargerOrEqual(s, best) == s >= best
\* line 217: if current_size_mb > best_size_mb
PdfLarger(s, best) == s > best

HighKeptOnFailure(mid, hi) == hi
\* lines 226-229: except Exception: high = mid
HighAfterFailure(mid, hi) == mid

\* lines 203-243: one iteration of the bisection, or the return of the best result
PdfLoop ==
    /\ pc = "pdf_loop"
    /\ IF PdfLoopGuard(pdf_low, pdf_high, iteration)
       THEN LET mid == (pdf_low + pdf_high) \div 2
                i == TierIndex(mid)
            IN \E s \in PdfEncodeResults(i) :
                 /\ ObserveAll(<<i, 0, 0>>, s, TierMonotone(i, s))
                 /\ nMid' = nMid + 1
                 /\ iteration' = iteration + 1
                 /\ pc' = "pdf_loop"
                 /\ IF s = EncodeError
                    THEN /\ pdf_high' = HighAfterFailure(mid, pdf_high)
                         /\ UNCHANGED << pdf_low, best_size_mb, pdf_best_quality,
                                         best_output >>
                    ELSE IF PdfFits(s)
                    THEN /\ pdf_low' = mid
                         /\ IF PdfLarger(s, best_size_mb)
                            THEN /\ best_size_mb' = s
                                 /\ pdf_best_quality' = mid
                                 /\ best_output' = "quality"
                            ELSE UNCHANGED << best_size_mb, pdf_best_quality,
                                              best_output >>
                         /\ UNCHANGED pdf_high
                    ELSE /\ pdf_high' = mid
                         /\ UNCHANGED << pdf_low, best_size_mb, pdf_best_quality,
                                         best_output >>
                 /\ UNCHANGED << outcome, temp_dir, files >>
       ELSE /\ pc' = "done"
            /\ outcome' = PdfOutcome(FALSE, best_size_mb, TierIndex(pdf_best_quality))
            /\ temp_dir' = None
            /\ files' = PdfReturnFiles(files)
            /\ NoProbe
            /\ UNCHANGED << pdf_low, pdf_high, iteration, best_size_mb,
                            pdf_best_quality, best_output, nMid >>
    /\ UNCHANGED << reqVars, bsqArgs, bsqLocals, imgLocals, vidLocals, nBoundary,
                    nRefine, lowest_size_mb >>

\* ------------------------------------------------ compress_video_to_target
BUFFER_MIN == 1024           \* 1.0 MB, in KB
BUFFER_MAX == 2048           \* 2.0 MB, in KB
BUFFER_AVG == (BUFFER_MIN + BUFFER_MAX) \div 2
audio_bitrate == 128000
min_bitrate == 100000
max_bitrate == 4000000
max_attempts == 4
BitScale == 10               \* video_bitrate is held in tenths of a bit/s

min_bytes == max_size_kb - BUFFER_MAX    \* band, in KB
max_bytes == max_size_kb - BUFFER_MIN

ClampBitrateUpperOnly(b) == Min(b, max_bitrate * BitScale)
\* lines 154, 186, 198: max(min_bitrate, min(video_bitrate, max_bitrate))
ClampBitrate(b) == Max(min_bitrate * BitScale, Min(b, max_bitrate * BitScale))

\* ((target_bytes * 8) / duration) - audio_bitrate for a target of kb KB
BitrateFor(kb) ==
    LET bits == kb * 1024 * 8
    IN (bits \div duration) * BitScale + ((bits % duration) * BitScale) \div duration
       - audio_bitrate * BitScale

\* run_ffmpeg_compression scales only when both dimensions are non-zero;
\* the bitrate is passed as str(int(video_bitrate))
VideoVector(b, w, h) ==
    IF w # 0 /\ h # 0 THEN << b \div BitScale, w, h >> ELSE << b \div BitScale, 0, 0 >>

\* Sizes ffmpeg can produce, in KB: below, inside and above the band
VideoSizes == { k \in { 1, min_bytes - 1, min_bytes, max_bytes, max_bytes + 1 } : k >= 1 }

VideoEncodeResults(v) ==
    IF v \in DOMAIN encMemo THEN { encMemo[v] }
    ELSE VideoSizes \cup { EncodeError }

InBand(size) == min_bytes <= size /\ size <= max_bytes

\* round(final_size / (1024 * 1024), 2) for a size in KB, in hundredths of a MB
RoundMB(kb) ==
    LET n == kb * 100
        q == n \div 1024
        r == n % 1024
    IN IF 2 * r > 1024 \/ (2 * r = 1024 /\ q % 2 = 1) THEN q + 1 ELSE q

\* app.py lines 143-144: the upload is saved as temp_input before the call
VideoSaved(fs) == fs \cup { "temp_input" }

\* app.py lines 153-164: the output is read back, then os.remove(temp_input)
\* and os.remove(output_path)
VideoReturnFiles(fs) == fs \ { "temp_input", "output" }

\* app.py lines 196-198: the except clause answers with the error and removes
\* nothing
VideoRaiseFiles(fs) == fs

NeedsDownscaleOutOfBand(size) == ~(min_bytes <= size /\ size <= max_bytes)
\* line 165: if final_size > max_bytes (initial compression is too large)
NeedsDownscale(size) == size > max_bytes

\* lines 127-162: band, initial bitrate estimate and the first encode; a
\* failing ffmpeg may leave a partly written output file
VideoInitial ==
    /\ pc = "vid_start"
    /\ LET b == ClampBitrate(BitrateFor(max_size_kb - BUFFER_AVG))
           v == VideoVector(b, None, None)
       IN \E s \in VideoEncodeResults(v) :
            /\ ObserveAll(v, s, TRUE)
            /\ video_bitrate' = b
            /\ IF s = EncodeError
               THEN /\ pc' = "raised"
                    /\ \E partial \in { {}, { "output" } } :
                          files' = VideoRaiseFiles(VideoSaved(files) \cup partial)
                    /\ UNCHANGED final_size
               ELSE /\ final_size' = s
                    /\ files' = VideoSaved(files) \cup { "output" }
                    /\ pc' = IF NeedsDownscale(s) THEN "vid_downscale" ELSE "vid_loop"
    /\ attempt' = 1
    /\ UNCHANGED << reqVars, bsqArgs, bsqLocals, imgLocals, pdfLocals, counters,
                    outcome, duration, new_width, new_height >>

\* lines 164-174: one encode at 80% of the width and height, same bitrate
VideoDownscale ==
    /\ pc = "vid_downscale"
    /\ LET nw == (original_width * 8) \div 10
           nh == (original_height * 8) \div 10
           v == VideoVector(video_bitrate, nw, nh)
       IN /\ new_width' = nw
          /\ new_height' = nh
          /\ \E s \in VideoEncodeResults(v) :
               /\ ObserveAll(v, s, TRUE)
               /\ IF s = EncodeError
                  THEN /\ pc' = "raised"
                       /\ files' = VideoRaiseFiles(files)
                       /\ UNCHANGED final_size
                  ELSE /\ final_size' = s
                       /\ pc' = "vid_loop"
                       /\ UNCHANGED files
    /\ UNCHANGED << reqVars, bsqArgs, bsqLocals, imgLocals, pdfLocals, counters,
                    outcome, duration, video_bitrate, attempt >>

AdjustBitrateSwapped(b, size) ==
    IF size > max_bytes THEN (b * 11) \div 10 ELSE (b * 9) \div 10
\* lines 180-183: video_bitrate *= 0.9 when too big, else video_bitrate *= 1.1
AdjustBitrate(b, size) ==
    IF size > max_bytes THEN (b * 9) \div 10 ELSE (b * 11) \div 10

VideoLoopGuardShort(size, att) == ~(min_bytes <= size /\ size <= max_bytes) /\ att < max_attempts
\* line 179: while not (min_bytes <= final_size <= max_bytes) and attempt <= max_attempts
VideoLoopGuard(size, att) == ~InBand(size) /\ att <= max_attempts

\* lines 176-191: one bitrate adjustment and encode, or leaving the loop
VideoLoop ==
    /\ pc = "vid_loop"
    /\ IF VideoLoopGuard(final_size, attempt)
       THEN LET b == ClampBitrate(AdjustBitrate(video_bitrate, final_size))
                v == VideoVector(b, original_width, original_height)
            IN \E s \in VideoEncodeResults(v) :
                 /\ ObserveAll(v, s, TRUE)
                 /\ nMid' = nMid + 1
                 /\ video_bitrate' = b
                 /\ IF s = EncodeError
                    THEN /\ pc' = "raised"
                         /\ files' = VideoRaiseFiles(files)
                         /\ UNCHANGED << final_size, attempt >>
                    ELSE /\ final_size' = s
                         /\ attempt' = attempt + 1
                         /\ pc' = "vid_loop"
                         /\ UNCHANGED files
       ELSE /\ pc' = "vid_final"
            /\ NoProbe
            /\ UNCHANGED << video_bitrate, final_size, attempt, nMid, files >>
    /\ UNCHANGED << reqVars, bsqArgs, bsqLocals, imgLocals, pdfLocals, nBoundary,
                    nRefine, outcome, duration, new_width, new_height >>

\* app.py lines 167-170: round((1 - (final_size_mb * 1024) / (size / 1024)) * 100, 2)
\* for final_size_mb = mb100 / 100 and an upload of orig KB, in hundredths of a percent
VideoReductionPercent(mb100, orig) ==
    LET n == (100 * orig - 1024 * mb100) * 100
    IN (2 * n + 100 * orig) \div (2 * 100 * orig)

\* line 203-204: return output_path, round(final_size / (1024 * 1024), 2)
VideoOutcome(size) ==
    [ source |-> FALSE, size |-> size, quality |-> None, width |-> None,
      height |-> None, resized |-> FALSE, success |-> "absent",
      reduction_percent |-> VideoReductionPercent(RoundMB(size), original_size),
      final_size_mb |-> RoundMB(size) ]

\* lines 193-204: one more encode when the size is still above the band,
\* then the return of the output path and its size
VideoFinal ==
    /\ pc = "vid_final"
    /\ IF final_size > max_bytes
       THEN LET b == ClampBitrate(BitrateFor(max_bytes - BUFFER_MAX))
                v == VideoVector(b, original_width, original_height)
            IN \E s \in VideoEncodeResults(v) :
                 /\ ObserveAll(v, s, TRUE)
                 /\ video_bitrate' = b
                 /\ IF s = EncodeError
                    THEN /\ pc' = "raised"
                         /\ files' = VideoRaiseFiles(files)
                         /\ UNCHANGED << final_size, outcome >>
                    ELSE /\ final_size' = s
                         /\ pc' = "done"
                         /\ outcome' = VideoOutcome(s)
                         /\ files' = VideoReturnFiles(files)
       ELSE /\ pc' = "done"
            /\ outcome' = VideoOutcome(final_size)
            /\ files' = VideoReturnFiles(files)
            /\ NoProbe
            /\ UNCHANGED << video_bitrate, final_size >>
    /\ UNCHANGED << reqVars, bsqArgs, bsqLocals, imgLocals, pdfLocals, counters,
                    duration, new_width, new_height, attempt >>

\* ------------------------------------------- compress_file, download_file
\* Two requests served at the same time; the content of a file or buffer is
\* the id of the request whose upload it was made from (0: nothing)
Requests == { 1, 2 }
FileTypes == { "image", "pdf", "video" }
FileNames == { "a", "b" }

\* line 143: temp_input = os.path.join(UPLOAD_FOLDER, secure_filename(file.filename))
TempInputPath(i) == << "uploads", app[i].name, app[i].type, "" >>

\* video_compressor.py line 157: output_filename = f"{uuid.uuid4().hex}.{format}"
OutputPath(i) == << "compressed", "uuid", app[i].type, ToString(i) >>

\* lines 138-140, 157-161 and image_compressor.py line 289: the name of the
\* upload with _compressed; line 175: temp_path in UPLOAD_FOLDER
DownloadPath(i) == << "uploads", app[i].name, app[i].type, "_compressed" >>

Exists(path) == path \in DOMAIN disk
WriteFile(path, content) == (path :> content) @@ disk
RemoveFile(path) == [ q \in DOMAIN disk \ { path } |-> disk[q] ]

AppStep(i, from, to) ==
    /\ app[i].pc = from
    /\ app' = [ app EXCEPT ![i].pc = to ]

searchVars == << pc, inputVars, settings, bsqArgs, bsqLocals, imgLocals, pdfLocals,
                vidLocals, files, counters, outcome >>

\* lines 142-144: file.save(temp_input)
AppSave(i) ==
    /\ AppStep(i, "save", "compress_video")
    /\ disk' = WriteFile(TempInputPath(i), i)
    /\ NoProbe
    /\ UNCHANGED searchVars

\* line 150: compress_video_to_target reads temp_input and writes its output;
\* ffmpeg fails when the input is not there
AppCompressVideo(i) ==
    /\ app[i].pc = "compress_video"
    /\ IF Exists(TempInputPath(i))
       THEN /\ disk' = WriteFile(OutputPath(i), disk[TempInputPath(i)])
            /\ app' = [ app EXCEPT ![i].pc = "read" ]
       ELSE /\ app' = [ app EXCEPT ![i].pc = "failed" ]
            /\ UNCHANGED disk
    /\ NoProbe
    /\ UNCHANGED searchVars

\* lines 153-154: the compressed video is read into the buffer
AppRead(i) ==
    /\ app[i].pc = "read"
    /\ app' = [ app EXCEPT ![i].pc = "remove_input", ![i].buffer = disk[OutputPath(i)] ]
    /\ NoProbe
    /\ UNCHANGED << disk, searchVars >>

\* line 163: os.remove(temp_input) raises when the file is gone
AppRemoveInput(i) ==
    /\ app[i].pc = "remove_input"
    /\ IF Exists(TempInputPath(i))
       THEN /\ disk' = RemoveFile(TempInputPath(i))
            /\ app' = [ app EXCEPT ![i].pc = "remove_output" ]
       ELSE /\ app' = [ app EXCEPT ![i].pc = "failed" ]
            /\ UNCHANGED disk
    /\ NoProbe
    /\ UNCHANGED searchVars

\* line 164: os.remove(output_path)
AppRemoveOutput(i) ==
    /\ AppStep(i, "remove_output", "store")
    /\ disk' = RemoveFile(OutputPath(i))
    /\ NoProbe
    /\ UNCHANGED searchVars

\* lines 128-140: images are compressed in memory, PDFs through temporary
\* files with names of their own
AppCompressBuffer(i) ==
    /\ app[i].pc = "compress"
    /\ app' = [ app EXCEPT ![i].pc = "store", ![i].buffer = i ]
    /\ NoProbe
    /\ UNCHANGED << disk, searchVars >>

\* lines 174-194: the buffer is written to temp_path and the answer names it
AppStore(i) ==
    /\ AppStep(i, "store", "download")
    /\ disk' = WriteFile(DownloadPath(i), app[i].buffer)
    /\ NoProbe
    /\ UNCHANGED searchVars

\* download_file, lines 201-227: the file of the answer's download_url is
\* sent, or 404 when it is not in the folder
AppDownload(i) ==
    /\ app[i].pc = "download"
    /\ IF Exists(DownloadPath(i))
       THEN app' = [ app EXCEPT ![i].pc = "close", ![i].delivered = disk[DownloadPath(i)] ]
       ELSE app' = [ app EXCEPT ![i].pc = "not_found" ]
    /\ NoProbe
    /\ UNCHANGED << disk, searchVars >>

\* download_file, lines 229-237: the file is removed when the response closes
AppClose(i) ==
    /\ AppStep(i, "close", "end")
    /\ disk' = IF Exists(DownloadPath(i)) THEN RemoveFile(DownloadPath(i)) ELSE disk
    /\ NoProbe
    /\ UNCHANGED searchVars

\* ------------------------------------------------------------ specification
NoOutcome == [ source |-> FALSE, size |-> 0, quality |-> None, width |-> None,
               height |-> None, resized |-> FALSE, success |-> "absent",
               reduction_percent |-> 0 ]

InitCommon ==
    /\ iterations = 0 /\ bs_size = 0 /\ bs_quality = None
    /\ ref_q = 0 /\ ref_end = 0
    /\ scale_idx = 0 /\ best_size = 0 /\ best_quality = None
    /\ has_buffer = FALSE /\ resized = FALSE
    /\ final_width = None /\ final_height = None
    /\ outcome = NoOutcome
    /\ encMemo = << >>
    /\ probed = {} /\ repeats = 0 /\ forgotten = FALSE
    /\ nBoundary = 0 /\ nMid = 0 /\ nRefine = 0 /\ nProbes = 0
    /\ lowest_size_mb = 0 /\ pdf_low = 0 /\ pdf_high = 0 /\ iteration = 0 /\ best_size_mb = 0
    /\ pdf_best_quality = 0 /\ best_output = "none"
    /\ temp_dir = None /\ files = {}
    /\ video_bitrate = 0 /\ new_width = None /\ new_height = None
    /\ final_size = 0 /\ attempt = 0
    /\ fitMax = 0 /\ fitHigh = 0 /\ mono = TRUE

\* no direct call of get_settings_for_quality_factor in this request
NoTierCall == quality_factor = 0 /\ settings = NoSettings /\ app = <<>> /\ disk = <<>>

InitImage ==
    /\ kind = "image"
    /\ pc = "start"
    /\ max_size_kb \in TargetsKB
    /\ target_size = max_size_kb * 1024
    /\ original_size \in OriginalSizes(target_size)
    /\ \E d \in ImageDims : original_width = d[1] /\ original_height = d[2]
    /\ min_quality = DefaultMinQuality /\ max_quality = DefaultMaxQuality
    /\ width = None /\ height = None
    /\ low = DefaultMinQuality /\ high = DefaultMaxQuality
    /\ overLow = DefaultMaxQuality + 1
    /\ duration = 0
    /\ knee = 0
    /\ NoTierCall

InitDirect ==
    /\ kind = "bsq"
    /\ pc = "bsq_max"
    /\ max_size_kb \in TargetsKB
    /\ target_size = max_size_kb * 1024
    /\ original_size = 4 * target_size
    /\ original_width = 40 /\ original_height = 30
    /\ min_quality \in 1..MaxDirectQ
    /\ max_quality \in min_quality..MaxDirectQ
    /\ width = None /\ height = None
    /\ low = min_quality /\ high = max_quality
    /\ overLow = max_quality + 1
    /\ duration = 0
    /\ knee = 0
    /\ NoTierCall

InitPdf ==
    /\ kind = "pdf"
    /\ pc = "pdf_start"
    /\ max_size_kb \in TargetsKB
    /\ target_size = max_size_kb * 1024
    /\ original_size \in OriginalSizes(target_size)
    /\ original_width = None /\ original_height = None
    /\ min_quality = DefaultMinQuality /\ max_quality = DefaultMaxQuality
    /\ width = None /\ height = None
    /\ low = DefaultMinQuality /\ high = DefaultMaxQuality
    /\ overLow = DefaultMaxQuality + 1
    /\ duration = 0
    /\ knee = 0
    /\ NoTierCall

MIN_TARGET_SIZE == 5         \* app.py: minimum target size in KB
Rejected == 0                \* the request is answered with 400

\* app.py lines 94-112: the target of a request, given in KB or in MB; the
\* accepted target in KB (max_size_kb), or Rejected
ValidateTarget(max_size, size_format) ==
    IF size_format = "mb"
    THEN IF max_size < 1 \/ max_size * 1024 < MIN_TARGET_SIZE
         THEN Rejected ELSE max_size * 1024
    ELSE IF max_size < 20 \/ max_size < MIN_TARGET_SIZE
         THEN Rejected ELSE max_size

\* targets asked for by video requests, with their size_format
VideoTargetRequests ==
    { << 19, "kb" >>, << 20, "kb" >>, << 0, "mb" >>, << 4, "mb" >>, << 30, "mb" >> }

\* Video requests: targets in KB, sizes of the upload in KB, durations in seconds
VideoTargetsKB ==
    { ValidateTarget(r[1], r[2]) : r \in VideoTargetRequests } \ { Rejected }
VideoOriginalSizes == { 1000, 51200 }
VideoDims == { <<1, 1>>, <<640, 480>> }
Durations == { 10, 60 }

InitVideo ==
    /\ kind = "video"
    /\ pc = "vid_start"
    /\ max_size_kb \in VideoTargetsKB
    /\ target_size = max_size_kb
    /\ original_size \in VideoOriginalSizes
    /\ \E d \in VideoDims : original_width = d[1] /\ original_height = d[2]
    /\ min_quality = DefaultMinQuality /\ max_quality = DefaultMaxQuality
    /\ width = None /\ height = None
    /\ low = DefaultMinQuality /\ high = DefaultMaxQuality
    /\ overLow = DefaultMaxQuality + 1
    /\ duration \in Durations
    /\ knee = 0
    /\ NoTierCall

\* Direct get_settings_for_quality_factor calls: factors from below 0.0 to
\* above 1.0 in steps of 1/FactorScale
Factors == (0 - FactorScale \div 10)..(FactorScale + FactorScale \div 10)

InitTiers ==
    /\ kind = "tier"
    /\ pc = "tier_start"
    /\ quality_factor \in Factors
    /\ settings = NoSettings
    /\ app = <<>> /\ disk = <<>>
    /\ max_size_kb \in TargetsKB
    /\ target_size = max_size_kb * 1024
    /\ original_size = 4 * target_size
    /\ original_width = None /\ original_height = None
    /\ min_quality = DefaultMinQuality /\ max_quality = DefaultMaxQuality
    /\ width = None /\ height = None
    /\ low = DefaultMinQuality /\ high = DefaultMaxQuality
    /\ overLow = DefaultMaxQuality + 1
    /\ duration = 0
    /\ knee = 0

\* Ladders over images of every width and height in LadderSides; for sides
\* below 90 pixels int(side * scale_factor) equals the exact floor
LadderSides == 1..40

InitDims ==
    /\ kind = "dims"
    /\ pc = "dims"
    /\ max_size_kb \in TargetsKB
    /\ target_size = max_size_kb * 1024
    /\ original_size = 4 * target_size
    /\ original_width \in LadderSides
    /\ original_height \in LadderSides
    /\ min_quality = DefaultMinQuality /\ max_quality = DefaultMaxQuality
    /\ width = None /\ height = None
    /\ low = DefaultMinQuality /\ high = DefaultMaxQuality
    /\ overLow = DefaultMaxQuality + 1
    /\ duration = 0
    /\ knee = 0
    /\ NoTierCall

Init ==
    InitCommon /\ (InitImage \/ InitDirect \/ InitPdf \/ InitVideo \/ InitTiers
                     \/ InitDims)

\* Two concurrent requests, each with a file type and an upload name
InitApp ==
    /\ InitCommon
    /\ kind = "app"
    /\ pc = "serving"
    /\ \E types \in [ Requests -> FileTypes ], names \in [ Requests -> FileNames ] :
          app = [ i \in Requests |->
                    [ type |-> types[i], name |-> names[i],
                      pc |-> IF types[i] = "video" THEN "save" ELSE "compress",
                      buffer |-> 0, delivered |-> 0 ] ]
    /\ disk = <<>>
    /\ quality_factor = 0 /\ settings = NoSettings
    /\ max_size_kb \in TargetsKB
    /\ target_size = max_size_kb * 1024
    /\ original_size = 4 * target_size
    /\ original_width = None /\ original_height = None
    /\ min_quality = DefaultMinQuality /\ max_quality = DefaultMaxQuality
    /\ width = None /\ height = None
    /\ low = DefaultMinQuality /\ high = DefaultMaxQuality
    /\ overLow = DefaultMaxQuality + 1
    /\ duration = 0
    /\ knee = 0

NextApp ==
    \E i \in Requests :
        \/ AppSave(i)
        \/ AppCompressVideo(i)
        \/ AppRead(i)
        \/ AppRemoveInput(i)
        \/ AppRemoveOutput(i)
        \/ AppCompressBuffer(i)
        \/ AppStore(i)
        \/ AppDownload(i)
        \/ AppClose(i)

\* concurrent requests of the web application
SpecApp == InitApp /\ [][NextApp]_vars

\* Direct binary_search_quality calls over the quality range 1..2^WideBits
\* against step encoders: under target below the knee, over target from it on
WideMax == 2 ^ WideBits
WideKnees == { 1, 2, 3, 1000, WideMax \div 2, WideMax - 1, WideMax, WideMax + 1 }

InitWide ==
    /\ InitCommon
    /\ kind = "bsq"
    /\ pc = "bsq_max"
    /\ max_size_kb \in TargetsKB
    /\ target_size = max_size_kb * 1024
    /\ original_size = 4 * target_size
    /\ original_width = 40 /\ original_height = 30
    /\ min_quality = 1
    /\ max_quality = WideMax
    /\ width = None /\ height = None
    /\ low = min_quality /\ high = max_quality
    /\ overLow = max_quality + 1
    /\ duration = 0
    /\ knee \in WideKnees
    /\ NoTierCall

Next ==
    \/ BsqProbeMax
    \/ BsqProbeMin
    \/ BsqLoop
    \/ BsqRefine
    \/ BsqReturnDirect
    \/ CompressImageStart
    \/ CompressImageAfterFirst
    \/ LadderStep
    \/ LadderAfterSearch
    \/ Floor
    \/ Finish
    \/ NewDimensions
    \/ PdfStart
    \/ PdfProbeLowest
    \/ PdfProbeHighest
    \/ PdfLoop
    \/ GetSettings
    \/ VideoInitial
    \/ VideoDownscale
    \/ VideoLoop
    \/ VideoFinal

Spec == Init /\ [][Next]_vars

\* every request is served to its end: no handler is suspended for ever
FairSpec == Init /\ [][Next]_vars /\ WF_vars(Next)

\* Spec together with the wide direct calls
SpecWide == (Init \/ InitWide) /\ [][Next]_vars

\* re-probed vectors always have their earlier result retained
MemoSound == ~forgotten

\* ------------------------------------------------------------------ claims
ImageCall == kind \in {"image", "bsq"}
EncoderFailed == \E v \in DOMAIN encMemo : encMemo[v] = EncodeError
LadderDims(k) ==
    calculate_new_dimensions(original_width, original_height, scale_factors[k])
FloorDims == calculate_new_dimensions(original_width, original_height, FloorScale)
OverAt(q, w, h) ==
    /\ <<q, w, h>> \in DOMAIN encMemo
    /\ encMemo[<<q, w, h>>] > target_size

\* C1: the best result retained by binary_search_quality, and by the bisect
\* loop of find_optimal_compression, never exceeds the target, whatever the
\* encoder returns; so a PDF result is within the target whenever the lowest
\* tier fits.
C1_BestWithinTarget ==
    /\ (ImageCall /\ bs_quality # None) => bs_size <= target_size
    /\ (kind = "pdf" /\ pc = "pdf_loop") => best_size_mb <= target_size
    /\ (kind = "pdf" /\ pc = "done" /\ lowest_size_mb <= target_size)
          => outcome.size <= target_size

\* a refinement probe has just replaced the best result of the loop
C1_Witness ==
    /\ kind = "image"
    /\ pc = "bsq_refine"
    /\ nMid > 0 /\ nRefine > 0
    /\ bs_quality = ref_q - 1

\* the quality search at the original dimensions and at all 8 ladder steps
\* found even quality 1 over the target
AllInfeasible ==
    /\ OverAt(DefaultMinQuality, None, None)
    /\ \A k \in 1..Len(scale_factors) :
          OverAt(DefaultMinQuality, LadderDims(k)[1], LadderDims(k)[2])

C2_Safe ==
    kind = "image" =>
      /\ pc # "error"
      /\ (pc = "done" /\ AllInfeasible) =>
            /\ outcome.quality = DefaultMinQuality
            /\ outcome.resized
            /\ << outcome.width, outcome.height >> = FloorDims
            /\ IF OverAt(DefaultMinQuality, FloorDims[1], FloorDims[2])
               THEN outcome.size = encMemo[<< DefaultMinQuality, FloorDims[1], FloorDims[2] >>]
               ELSE outcome.size <= target_size

C3_SourceReturnedUnchanged ==
    (pc = "done" /\ kind \in {"image", "pdf", "video"} /\ original_size <= target_size)
        => /\ outcome.source
           /\ nProbes = 0
           /\ outcome.size = original_size
           /\ outcome.reduction_percent = 0
           /\ outcome.success = "true"

C5_LowestTierDecides ==
    (kind = "pdf" /\ pc = "done" /\ original_size > target_size)
        => IF lowest_size_mb <= target_size
           THEN outcome.size <= target_size
           ELSE /\ outcome.size = lowest_size_mb
                /\ outcome.quality = TierIndex(0)
                /\ best_output = "lowest_quality"
                /\ probed = { << TierIndex(0), 0, 0 >> }
                /\ nProbes = 1

\* the lowest tier is over the target and is the result
C5_Witness ==
    /\ kind = "pdf"
    /\ pc = "done"
    /\ lowest_size_mb > target_size
    /\ outcome.size = lowest_size_mb

\* A quality q of the current call that no probe has tried
Unprobed(q) == << q, width, height >> \notin probed

\* An encoder whose size is non-decreasing in quality, and that has returned
\* the results observed so far, can return size s at the unprobed quality q
MayReturn(q, s) ==
    /\ s \in ImageSizes(target_size)
    /\ q < overLow
    /\ q > fitHigh => s >= fitMax

SuccessfulSearch == ImageCall /\ pc = "bsq_ret" /\ bs_quality # None

\* the main loop stopped at its iteration limit with qualities left between
\* low and high
CutShort == iterations >= max_iterations /\ low <= high

\* C6 as claimed: after a successful search against a monotone encoder no
\* untried quality above the returned one fits with a strictly larger size.
C6_NoLargerUntried ==
    (SuccessfulSearch /\ mono) =>
        /\ bs_size <= target_size
        /\ ~ \E q \in (bs_quality + 1)..max_quality :
              /\ Unprobed(q)
              /\ \E s \in ImageSizes(target_size) :
                    MayReturn(q, s) /\ s <= target_size /\ s > bs_size

\* C6: after a successful binary_search_quality call against a monotone
\* encoder the result is within the target and, unless the main loop stopped
\* at its limit of 20 iterations, no untried quality above the returned one
\* fits with a size that exceeds the returned size by more than the tolerance
\* (1% of the target).
C6_NoLargerUntriedBeyondTolerance ==
    (SuccessfulSearch /\ mono) =>
        /\ bs_size <= target_size
        /\ CutShort \/ ~ \E q \in (bs_quality + 1)..max_quality :
              /\ Unprobed(q)
              /\ \E s \in ImageSizes(target_size) :
                    /\ MayReturn(q, s)
                    /\ s <= target_size
                    /\ 100 * (s - bs_size) > target_size * tolerance_pct

\* a search that ran to the collapse of the interval, far from the target
C6_Witness ==
    /\ SuccessfulSearch
    /\ mono
    /\ nMid > 3 /\ nRefine > 0
    /\ 100 * (target_size - bs_size) > target_size * tolerance_pct

\* some quality fits at the original dimensions
FitsAtOriginal == ~OverAt(DefaultMinQuality, None, None)

\* no quality above q can fit at the current dimensions
HighestFitting(q) == \A r \in (q + 1)..DefaultMaxQuality : r >= overLow

ImageSearched == kind = "image" /\ pc = "done" /\ ~outcome.source

\* C7 as claimed: when some quality fits at the original dimensions (monotone
\* encoder) the result is the highest quality in 1..95 that fits.
C7_HighestQuality ==
    (ImageSearched /\ mono /\ FitsAtOriginal) =>
        /\ outcome.success = "true"
        /\ ~outcome.resized
        /\ HighestFitting(outcome.quality)

\* C7: when some quality fits at the original dimensions (monotone encoder)
\* compress_image succeeds without resizing, and the returned quality is the
\* highest one in 1..95 that fits unless the returned size is within 1% of the
\* target.
C7_HighestQualityOrWithinTolerance ==
    (ImageSearched /\ mono /\ FitsAtOriginal) =>
        /\ outcome.success = "true"
        /\ ~outcome.resized
        /\ \/ HighestFitting(outcome.quality)
           \/ 100 * (target_size - outcome.size) <= target_size * tolerance_pct

\* the search found the highest fitting quality strictly inside the bounds
C7_Witness ==
    /\ ImageSearched /\ mono /\ FitsAtOriginal
    /\ outcome.quality > DefaultMinQuality + 4
    /\ outcome.quality < DefaultMaxQuality
    /\ 100 * (target_size - outcome.size) > target_size * tolerance_pct

\* C8: the result of a successful binary_search_quality call is the largest
\* fitting size among the probes of that call, for any deterministic encoder.
C8_LargestFittingProbe ==
    SuccessfulSearch => bs_size = fitMax

\* C9 as claimed: at most 20 probes before the refinement pass, boundary
\* probes included, and at most 4 refinement probes.
C9_TwentyProbes ==
    ImageCall => (nBoundary + nMid <= max_iterations /\ nRefine <= RefineSpan - 1)

\* C9: one binary_search_quality call makes at most 2 boundary probes, at most
\* 20 midpoint probes (22 probes before the refinement pass) and at most 4
\* refinement probes.
C9_TwentyMidpoints ==
    ImageCall =>
        /\ nBoundary <= 2
        /\ nMid <= max_iterations
        /\ nRefine <= RefineSpan - 1

\* a call that used the whole iteration limit and the whole refinement pass
C9_Witness ==
    /\ kind = "bsq"
    /\ pc = "done"
    /\ nBoundary = 2 /\ nMid = max_iterations /\ nRefine = RefineSpan - 1

\* C10: within one image request no parameter vector (quality, width,
\* height) is handed to the encoder twice.
C10_NoVectorTwice ==
    kind = "image" => repeats = 0

\* ladder step k has computed its dimensions
Applied(k) == k < scale_idx \/ (k = scale_idx /\ pc # "ladder")

\* C11: the scale factors of the resize fallback are strictly descending, down
\* to the floor, and no two ladder steps applied to an image compute the same
\* (width, height) pair.
C11_LadderNeverRevisits ==
    kind = "image" =>
        /\ \A j, k \in 1..Len(scale_factors) :
              j < k => scale_factors[j] > scale_factors[k]
        /\ FloorScale < scale_factors[Len(scale_factors)]
        /\ \A j, k \in 1..Len(scale_factors) :
              (j < k /\ Applied(j) /\ Applied(k)) => LadderDims(j) # LadderDims(k)

\* C12: a result reported as resized has dimensions strictly smaller than the
\* original ones.
C12_ResizedIsSmaller ==
    (kind = "image" /\ pc = "done" /\ outcome.resized) =>
        /\ outcome.width < original_width
        /\ outcome.height < original_height

\* C13: every bitrate handed to ffmpeg by compress_video_to_target lies in
\* [100000, 4000000] bits/s, also when the estimate from the target is negative.
C13_BitrateWithinLimits ==
    kind = "video" =>
        \A v \in probed : min_bitrate <= v[1] /\ v[1] <= max_bitrate

\* a negative estimate went through the initial encode, the downscaled
\* encode, all 4 adjustments and the safety pass
C13_Witness ==
    /\ kind = "video"
    /\ pc = "done"
    /\ BitrateFor(max_size_kb - BUFFER_AVG) < 0
    /\ nMid = max_attempts
    /\ nProbes = max_attempts + 3

\* C17: every outcome of compress_image carries a success flag, which is true
\* exactly when the achieved size is within the target.
C17_SuccessIffWithinTarget ==
    (kind = "image" /\ pc = "done") =>
        /\ outcome.success \in { "true", "false" }
        /\ outcome.success = "true" <=> outcome.size <= target_size

\* C18: the buffer returned by compress_image is never larger than
\* max_size_kb * 1024 bytes.
C18_ReturnedWithinTarget ==
    (kind = "image" /\ pc = "done") => outcome.size <= max_size_kb * 1024

\* the midpoint of the next iteration of the PDF bisection
PdfMid == (pdf_low + pdf_high) \div 2

\* the step is an iteration of the bisection whose probe fails
MidProbeFails ==
    /\ kind = "pdf"
    /\ pc = "pdf_loop"
    /\ PdfLoopGuard(pdf_low, pdf_high, iteration)
    /\ iteration' = iteration + 1
    /\ encMemo'[<< TierIndex(PdfMid), 0, 0 >>] = EncodeError

\* a failure that ended the request came from a boundary probe; a request that
\* ended after failed midpoints returns the best fitting result
C20_Ends ==
    kind = "pdf" =>
        /\ pc = "raised" =>
              /\ nMid = 0
              /\ \E i \in { TierIndex(0), TierIndex(FactorScale) } :
                    /\ << i, 0, 0 >> \in DOMAIN encMemo
                    /\ encMemo[<< i, 0, 0 >>] = EncodeError
        /\ (pc = "done" /\ EncoderFailed) =>
              /\ nMid > 0
              /\ outcome.size > 0
              /\ outcome.size <= target_size

\* C20: a failing midpoint probe of the PDF bisection is handled like a result
\* that is too large (high := mid, best result unchanged) and the search goes
\* on to return a usable result; only a failure of the lowest-tier or
\* highest-tier probe ends the request with the error.
C20_MidFailureIsTooLarge ==
    /\ [](C20_Ends)
    /\ [][ MidProbeFails =>
              /\ pc' = "pdf_loop"
              /\ pdf_high' = PdfMid
              /\ UNCHANGED << pdf_low, best_size_mb, pdf_best_quality, best_output >>
         ]_vars

\* a search with a failed midpoint returns the result of another midpoint
C20_Witness ==
    /\ kind = "pdf"
    /\ pc = "done"
    /\ EncoderFailed
    /\ best_output = "quality"

\* C15: when a PDF or video request has ended, by a result or by an encoder
\* error, no intermediate file of it is left on disk (temp directory,
\* temporary input, output file) and temp_dir is None.
C15_NoArtifactLeft ==
    (kind \in { "pdf", "video" } /\ pc \in { "done", "raised" }) =>
        /\ files = {}
        /\ temp_dir = None

\* f (scaled by FactorScale) is not above the quality_factor of level i
AtLeast(i, f) == CUSTOM_QUALITY_LEVELS[i].quality_factor * FactorScale >= 10 * f

C16_RequestsIsolated ==
    kind = "app" =>
        \A i \in Requests :
            /\ app[i].buffer \in { 0, i }
            /\ app[i].delivered \in { 0, i }
            /\ app[i].pc \notin { "failed", "not_found" }

\* C21: in a binary_search_quality call a failing probe ends the call with
\* the error only when it is the probe of max_quality or of min_quality; a
\* failing midpoint probe moves the interval and the call still returns.
C21_OnlyBoundaryFailureIsFatal ==
    (kind = "bsq" /\ pc = "raised") => (nMid = 0 /\ nRefine = 0)

\* the vectors of the two boundary probes of the current call
MaxVector == << max_quality, width, height >>
MinVector == << min_quality, width, height >>

\* the probe of max_quality has been made and its result fitted
MaxFitted == nProbes >= 1 /\ MaxVector \notin DOMAIN encMemo

\* both boundary probes have been made and both were over the target
BothOver ==
    /\ nProbes >= 2
    /\ OverAt(max_quality, width, height)
    /\ OverAt(min_quality, width, height)

C23_LadderIffInfeasible ==
    kind = "image" =>
        /\ scale_idx >= 1 => OverAt(DefaultMinQuality, None, None)
        /\ (\E v \in probed : v[2] # None \/ v[3] # None) => scale_idx >= 1
        /\ pc \in { "finish", "done", "error", "raised" } =>
              (scale_idx >= 1 <=> OverAt(DefaultMinQuality, None, None))
        /\ (pc = "done" /\ ~outcome.source /\ ~OverAt(DefaultMinQuality, None, None)) =>
              /\ \A v \in probed : v[2] = None /\ v[3] = None
              /\ ~outcome.resized
              /\ outcome.width = original_width
              /\ outcome.height = original_height

\* the search at the original dimensions succeeded through its main loop
C23_Witness ==
    /\ kind = "image"
    /\ pc = "done"
    /\ ~outcome.source
    /\ scale_idx = 0
    /\ nMid > 0
    /\ ~outcome.resized

\* the quality search of the current ladder step is running or has returned
InLadderSearch ==
    /\ scale_idx >= 1
    /\ pc \in { "bsq_max", "bsq_min", "bsq_loop", "bsq_refine", "bsq_ret" }

\* the request returned the result of a ladder step, not the floor probe
LadderReturned ==
    /\ kind = "image"
    /\ pc = "done"
    /\ outcome.resized
    /\ ~OverAt(DefaultMinQuality, LadderDims(scale_idx)[1], LadderDims(scale_idx)[2])

C24_Ladder ==
    kind = "image" =>
        /\ InLadderSearch =>
              /\ << width, height >> = LadderDims(scale_idx)
              /\ OverAt(DefaultMaxQuality, width, height)
        /\ LadderReturned =>
              LET d == LadderDims(scale_idx) IN
              /\ << outcome.width, outcome.height >> = d
              /\ outcome.size <= target_size
              /\ IF OverAt(DefaultMaxQuality, d[1], d[2])
                 THEN nBoundary >= 1 /\ outcome.quality < DefaultMaxQuality
                 ELSE /\ outcome.quality = DefaultMaxQuality
                      /\ nBoundary = 0 /\ nMid = 0 /\ nRefine = 0
              /\ \A j \in 1..(scale_idx - 1) :
                    /\ OverAt(DefaultMaxQuality, LadderDims(j)[1], LadderDims(j)[2])
                    /\ OverAt(DefaultMinQuality, LadderDims(j)[1], LadderDims(j)[2])
              /\ \A v \in probed :
                    v[2] # None => \E j \in 1..scale_idx : << v[2], v[3] >> = LadderDims(j)

\* C24: at each scale of the ladder the first probe is at quality 95; when it
\* fits it is the result, with quality 95 and no nested search, otherwise
\* binary_search_quality runs at those dimensions.  The ladder ends at the
\* first scale that yields a fitting result and no smaller scale is probed.
C24_FirstFittingScale ==
    /\ [](C24_Ladder)
    /\ [][ (kind = "image" /\ pc = "ladder") =>
              /\ nProbes' = nProbes + 1
              /\ << DefaultMaxQuality, LadderDims(scale_idx)[1], LadderDims(scale_idx)[2] >>
                    \in probed'
              /\ pc' \in { "floor", "bsq_max", "raised" }
         ]_vars

\* quality 95 fitted at the second scale of a 40x30 image
C24_Witness ==
    /\ LadderReturned
    /\ scale_idx = 2
    /\ outcome.quality = DefaultMaxQuality
    /\ outcome.width = 32 /\ outcome.height = 24

\* int(side * scale_factor) for the scale factor of ladder step k
Trunc(side, k) == (side * scale_factors[k]) \div 10

C25_Dims ==
    (kind = "dims" /\ scale_idx >= 1) =>
        /\ new_width = (IF Trunc(original_width, scale_idx) >= 1
                        THEN Trunc(original_width, scale_idx) ELSE 1)
        /\ new_height = (IF Trunc(original_height, scale_idx) >= 1
                         THEN Trunc(original_height, scale_idx) ELSE 1)
        /\ new_width >= 1 /\ new_height >= 1
        /\ new_width <= original_width /\ new_height <= original_height

\* C25: calculate_new_dimensions returns max(1, trunc(w * s)) and
\* max(1, trunc(h * s)); for every original size with w, h >= 1 every ladder
\* step has a width and height >= 1, and neither grows from one step to the
\* next.
C25_DimensionsShrink ==
    /\ [](C25_Dims)
    /\ [][ (kind = "dims" /\ scale_idx >= 1) =>
              (new_width' <= new_width /\ new_height' <= new_height) ]_vars

\* the ladder of a 1x40 image: the width is held at 1 down to the last step
C25_Witness ==
    /\ kind = "dims"
    /\ pc = "done"
    /\ original_width = 1 /\ original_height = 40
    /\ scale_idx = Len(scale_factors)
    /\ new_width = 1 /\ new_height = 8

\* the step is an iteration of the PDF bisection
PdfMidProbe ==
    /\ kind = "pdf"
    /\ pc = "pdf_loop"
    /\ PdfLoopGuard(pdf_low, pdf_high, iteration)
    /\ iteration' = iteration + 1

\* the result of the midpoint probe of the step
MidResult == encMemo'[<< TierIndex(PdfMid), 0, 0 >>]
MidResultFits == MidResult # EncodeError /\ MidResult <= target_size

BestKept == UNCHANGED << best_size_mb, pdf_best_quality, best_output >>
BestTaken ==
    /\ best_size_mb' = MidResult
    /\ pdf_best_quality' = PdfMid
    /\ best_output' = "quality"

\* C26 as claimed: the interval moves upward (low := mid) only when the probed
\* tier fits and is strictly larger than the current best, which it then
\* replaces; in every other case the interval moves downward (high := mid).
C26_UpOnlyWhenLarger ==
    [][ PdfMidProbe =>
          IF MidResultFits /\ MidResult > best_size_mb
          THEN pdf_low' = PdfMid /\ pdf_high' = pdf_high /\ BestTaken
          ELSE pdf_high' = PdfMid /\ pdf_low' = pdf_low /\ BestKept
      ]_vars

\* C26: at each midpoint of the PDF bisection the interval moves upward
\* (low := mid) whenever the probed tier fits, and the best result is replaced
\* only when the probed size is strictly larger than it; the interval moves
\* downward (high := mid) when the probed tier is too large or fails.
C26_UpWheneverFits ==
    [][ PdfMidProbe =>
          IF MidResultFits
          THEN /\ pdf_low' = PdfMid /\ pdf_high' = pdf_high
               /\ IF MidResult > best_size_mb THEN BestTaken ELSE BestKept
          ELSE pdf_high' = PdfMid /\ pdf_low' = pdf_low /\ BestKept
      ]_vars

\* a fitting midpoint that was not larger than the best result moved low up
C26_Witness ==
    /\ kind = "pdf"
    /\ pc = "pdf_loop"
    /\ pdf_low > pdf_best_quality
    /\ pdf_high = FactorScale
    /\ best_size_mb = lowest_size_mb

\* high - low <= 0.05
IntervalNarrow == 100 * (pdf_high - pdf_low) <= WidthThreshold * FactorScale

C27_Interval ==
    (kind = "pdf" /\ pc \in { "pdf_loop", "done" }) =>
        /\ nMid <= pdf_max_iterations
        /\ 0 <= pdf_low /\ pdf_low <= pdf_high /\ pdf_high <= FactorScale

\* C27: the PDF bisection ends for every encoder behaviour, failures
\* included, after at most 8 midpoint probes; it makes no probe once
\* high - low <= 0.05; 0 <= low <= high <= 1 holds throughout, low never
\* decreases and high never increases.
C27_TierLoopEnds ==
    /\ [](C27_Interval)
    /\ [][ (kind = "pdf" /\ pc = "pdf_loop") =>
              /\ pdf_low' >= pdf_low
              /\ pdf_high' <= pdf_high
              /\ IntervalNarrow => (nProbes' = nProbes /\ pc' = "done")
         ]_vars
    /\ <>(kind = "pdf" => pc \in { "done", "raised" })

\* a bisection that ran until the interval was narrow, with a failed midpoint
C27_Witness ==
    /\ kind = "pdf"
    /\ pc = "done"
    /\ EncoderFailed
    /\ IntervalNarrow
    /\ nMid = 5

\* the first encode of a video request and its result
InitialBitrate == ClampBitrate(BitrateFor(max_size_kb - BUFFER_AVG))
InitialVector == VideoVector(InitialBitrate, None, None)
InitialProbed ==
    /\ kind = "video"
    /\ InitialVector \in DOMAIN encMemo
    /\ encMemo[InitialVector] # EncodeError
InitialSize == encMemo[InitialVector]

\* 80% of the width and height of the upload, truncated
DownWidth == (original_width * 8) \div 10
DownHeight == (original_height * 8) \div 10

C28_Downscale ==
    kind = "video" =>
        /\ pc = "vid_downscale" =>
              /\ nProbes = 1 /\ nMid = 0
              /\ InitialProbed /\ InitialSize > max_bytes
              /\ video_bitrate = InitialBitrate
        /\ (InitialProbed /\ InitialSize <= max_bytes) =>
              /\ pc # "vid_downscale"
              /\ new_width = None /\ new_height = None
        /\ (InitialProbed /\ InBand(InitialSize)) => nProbes = 1

\* C28: the downscale to 80% of the width and height is applied at most once
\* per request, only when the first encode is above max_bytes, with the
\* bitrate of the first encode and before every bitrate adjustment; when the
\* first encode is inside the band no other encode is made.
C28_OneShotDownscale ==
    /\ [](C28_Downscale)
    /\ [][ (kind = "video" /\ pc = "vid_downscale") =>
              /\ nProbes' = 2
              /\ video_bitrate' = video_bitrate
              /\ VideoVector(InitialBitrate, DownWidth, DownHeight) \in probed'
              /\ << new_width', new_height' >> = << DownWidth, DownHeight >>
              /\ pc' \in { "vid_loop", "raised" }
         ]_vars

\* a 640x480 video was downscaled once, then its bitrate was adjusted
C28_Witness ==
    /\ kind = "video"
    /\ pc = "done"
    /\ InitialProbed /\ InitialSize > max_bytes
    /\ new_width = 512 /\ new_height = 384
    /\ nMid >= 1

\* the downscaled encode has been made
Downscaled == InitialProbed /\ InitialSize > max_bytes /\ nProbes >= 2

\* C29: once the downscale has been applied, every later encode of the
\* request (bitrate adjustments and the final pass) is made at the downscaled
\* width and height, not at the original resolution.
C29_LaterProbesDownscaled ==
    (kind = "video" /\ Downscaled) =>
        \A v \in probed :
            v = InitialVector \/ << v[2], v[3] >> = << new_width, new_height >>

\* some encode of the request produced a size inside the band
BandSeen == \E v \in DOMAIN encMemo : InBand(encMemo[v])

\* the step is an encode of the bitrate loop
VideoAdjustProbe ==
    /\ kind = "video"
    /\ pc = "vid_loop"
    /\ nProbes' = nProbes + 1

C30_Counts ==
    kind = "video" =>
        /\ nMid <= max_attempts
        /\ nProbes <= max_attempts + 3
        /\ BandSeen =>
              /\ pc \in { "vid_loop", "vid_final", "done" }
              /\ InBand(final_size)

\* C30: each attempt of the bitrate loop multiplies the bitrate by 0.9 when
\* the last size is above max_bytes and by 1.1 when it is below min_bytes,
\* clamps it and encodes again; the loop makes at most 4 encodes, no encode
\* follows a size inside the band, and a request makes at most 7 encodes.
C30_BitrateLoop ==
    /\ [](C30_Counts)
    /\ [][ VideoAdjustProbe =>
              /\ final_size > max_bytes \/ final_size < min_bytes
              /\ final_size > max_bytes =>
                    video_bitrate' = ClampBitrate((video_bitrate * 9) \div 10)
              /\ final_size < min_bytes =>
                    video_bitrate' = ClampBitrate((video_bitrate * 11) \div 10)
              /\ \E v \in probed' : v[1] = video_bitrate' \div BitScale
              /\ nMid' = nMid + 1
         ]_vars
    /\ [][ (kind = "video" /\ BandSeen) => nProbes' = nProbes ]_vars
    /\ [][ (kind = "video" /\ pc = "vid_loop" /\ ~InBand(final_size)
                /\ nMid < max_attempts) => nProbes' = nProbes + 1 ]_vars

\* a request that used all 7 encodes and ended inside the band
C30_Witness ==
    /\ kind = "video"
    /\ pc = "done"
    /\ nProbes = max_attempts + 3
    /\ max_size_kb = 4096
    /\ InBand(outcome.size)

\* the step is the final check of a video request
VideoFinalStep == kind = "video" /\ pc = "vid_final"

\* C31: the final pass runs exactly when the size is still above max_bytes
\* after the bitrate loop, makes exactly one more encode, with the bitrate
\* clamp((S * 8 / duration) - audio_bitrate) for S = the lower edge of the
\* band minus the larger margin (the caller's maximum - 2.0 MB - 2.0 MB), and
\* its result is returned whatever its size.
C31_FinalPassFromLowerEdge ==
    [][ VideoFinalStep =>
          IF final_size > max_bytes
          THEN /\ nProbes' = nProbes + 1
               /\ video_bitrate' = ClampBitrate(BitrateFor(min_bytes - BUFFER_MAX))
               /\ pc' = "done" => outcome'.size = final_size'
          ELSE /\ nProbes' = nProbes
               /\ pc' = "done"
      ]_vars

\* with sizes non-decreasing along the table, tier j cannot fit: a tier at or
\* below it was probed over the target
TierOver(j) ==
    \E k \in 1..j : /\ << k, 0, 0 >> \in DOMAIN encMemo
                    /\ encMemo[<< k, 0, 0 >>] > target_size

\* a bisection has returned against a monotone encoder that never failed
PdfSearched ==
    /\ kind = "pdf"
    /\ pc = "done"
    /\ nMid >= 1
    /\ mono
    /\ ~EncoderFailed

\* the highest tier of the table that can fit
BestFittingTier ==
    CHOOSE j \in 1..Len(CUSTOM_QUALITY_LEVELS) :
        /\ ~TierOver(j)
        /\ \A k \in 1..Len(CUSTOM_QUALITY_LEVELS) : ~TierOver(k) => k <= j

\* C32 as claimed: against a never-failing encoder with sizes non-decreasing
\* along the table, when the lowest tier fits and the highest does not, the
\* returned output is that of the highest tier of the table that fits.
C32_HighestFittingTier ==
    PdfSearched =>
        \A j \in (outcome.quality + 1)..Len(CUSTOM_QUALITY_LEVELS) : TierOver(j)

\* C32: against a never-failing encoder with sizes non-decreasing along the
\* table, when the lowest tier fits and the highest does not, the bisection
\* probes the highest tier of the table that fits and returns an output of
\* that tier's size: the output of that tier, or of a lower tier that has
\* exactly the same size.
C32_HighestFittingSize ==
    PdfSearched =>
        /\ << BestFittingTier, 0, 0 >> \in DOMAIN encMemo
        /\ encMemo[<< BestFittingTier, 0, 0 >>] = outcome.size
        /\ outcome.size <= target_size
        /\ outcome.quality <= BestFittingTier
        /\ encMemo[<< outcome.quality, 0, 0 >>] = outcome.size

\* the tier of factor 0.6 was found by the fourth midpoint and returned
C32_Witness ==
    /\ PdfSearched
    /\ nMid = 5
    /\ outcome.quality = 7
    /\ BestFittingTier = 7
    /\ outcome.size > lowest_size_mb

\* C33: when the final pass runs (size still above max_bytes) its bitrate is
\* not higher than the bitrate of the last encode of the bitrate loop.
C33_FinalPassNotHigher ==
    [][ (VideoFinalStep /\ final_size > max_bytes) =>
            video_bitrate' <= video_bitrate ]_vars

\* target_bytes of compress_video_to_target, in KB
target_bytes == max_size_kb - BUFFER_AVG

\* C34: for every video target that the validation of compress_file accepts
\* (>= 20 in KB, >= 1 in MB) the band handed to compress_video_to_target can
\* be met: max_bytes = (max_size_mb - 1.0) MB is strictly positive and
\* min_bytes <= target_bytes <= max_bytes.
C34_BandAttainable ==
    (kind = "video" /\ nProbes >= 1) =>
        /\ max_size_kb \in VideoTargetsKB
        /\ max_bytes > 0
        /\ min_bytes <= target_bytes
        /\ target_bytes <= max_bytes

====
